---- MODULE Spec2Model ----
(***************************************************************************)
(* Model of the SWOT / buoy collocation pipeline:                          *)
(*   src/src/overpass_index.py  index_overpasses                           *)
(*   src/src/collocation.py     haversine_km, collocate_buoy_to_file,      *)
(*                              collocate_all                              *)
(*                                                                         *)
(* Number representation.  Longitudes and latitudes are whole degrees.     *)
(* Floating point is replaced by fixed point: angles and the sines of      *)
(* small angles are in millionths (1e-6), cosines in ten-thousandths       *)
(* (1e-4), and distances in metres, so the field distance_km holds         *)
(* km * 1000.  The degree padding R_km / 111.0 is never rounded: every     *)
(* comparison against it is multiplied through by 111.                     *)
(***************************************************************************)
EXTENDS Integers, Sequences, FiniteSets, TLC

----------------------------------------------------------------------------
(* haversine_km, collocation.py:5-12 *)

\* R = 6371.0, the sphere's radius in km
R == 6371

Abs(x) == IF x < 0 THEN -x ELSE x

\* x * to_rad with to_rad = np.pi / 180.0; degrees to micro-radians.
\* Rounds toward zero, so that ToRad(-x) = -ToRad(x) as in the code.
ToRad(deg) == IF deg < 0 THEN -((-deg * 174533) \div 10)
                         ELSE (deg * 174533) \div 10

\* x / 2, rounding toward zero
Half(x) == IF x < 0 THEN -((-x) \div 2) ELSE x \div 2

\* np.sin for a small angle x (|x| <= 0.046 rad), in and out in 1e-6:
\* x - x^3/6, the next term being below 1e-8.  Odd, as np.sin is.
SinPos(x) == x - (((x * x) \div 1000000) * x) \div 6000000
Sin(x) == IF x < 0 THEN -SinPos(-x) ELSE SinPos(x)

\* np.cos of an angle x given in 1e-6, result in 1e-4: the series
\* 1 - y/2 + y^2/24 - y^3/720 + y^4/40320 with y = x^2, in Horner form.
CosSq(x) == ((Abs(x) \div 100) * (Abs(x) \div 100)) \div 10000
CosHorner(y) ==
    10000 - (y * (10000 - (y * (10000 - (y * (10000 - y \div 56))
                                          \div 300000))
                            \div 120000))
             \div 20000
Cos(x) == CosHorner(CosSq(x))

\* np.sqrt on naturals: the largest r with r * r <= n, by bisection
RECURSIVE SqrtBisect(_, _, _)
SqrtBisect(n, lo, hi) ==
    IF hi - lo <= 1 THEN lo
    ELSE LET mid == (lo + hi) \div 2
         IN  IF mid * mid <= n THEN SqrtBisect(n, mid, hi)
                               ELSE SqrtBisect(n, lo, mid)
Sqrt(n) == SqrtBisect(n, 0, 46341)

\* np.arcsin for a small argument, in and out in 1e-6: x + x^3/6
ArcSin(x) == x + (((x * x) \div 1000000) * x) \div 6000000

\* a = sin(dlat/2)**2 + cos(lat1)*cos(lat2) * sin(dlon/2)**2, in 1e-12.
\* The product is taken as ((cos1 * s) * cos2) * s so that every
\* intermediate value fits a 32-bit integer.
HavA(lon1, lat1, lon2, lat2) ==
    LET dlon == ToRad(lon2 - lon1)
        dlat == ToRad(lat2 - lat1)
        sLat == Sin(Half(dlat))
        sLon == Abs(Sin(Half(dlon)))
        c1   == Cos(ToRad(lat1))
        c2   == Cos(ToRad(lat2))
    IN  sLat * sLat + (((((c1 * sLon) \div 10000) * c2) \div 10000) * sLon)

\* return 2 * R * np.arcsin(np.sqrt(a)), in metres
haversine_km(lon1, lat1, lon2, lat2) ==
    (2 * R * ArcSin(Sqrt(HavA(lon1, lat1, lon2, lat2)))) \div 1000

----------------------------------------------------------------------------
(* The data the program reads *)

\* The largest number of *.nc files in the folder
NFiles == 2

\* The search radii R_km tried, in km
Radii == {60, 111}

\* Buoy names; their order stands for the order of the name strings
Names == {1, 2}

\* Buoy positions (lon, lat) in degrees
Positions == {<<0, 60>>, <<2, 60>>}

Px(lon, lat, time) == [lon |-> lon, lat |-> lat, time |-> time, nan |-> FALSE]

\* What xr.open_dataset finds in a file.  kind: "ok" a dataset with lon, lat
\* and time; "notime" one without the time variable; "nolon" one without
\* lon; "corrupt" a file that does not open.  grid: the cells, outermost
\* dimension first.
Datasets ==
    { [kind |-> "ok",      grid |-> << <<Px(0, 60, 5)>> >>],
      [kind |-> "ok",      grid |-> << <<Px(3, 60, 1), Px(1, 60, 2)>>,
                                       <<Px(-1, 60, 3), Px(-3, 60, 4)>> >>],
      [kind |-> "ok",      grid |-> << <<Px(1, 61, 8)>> >>],
      [kind |-> "ok",      grid |-> << <<Px(0, 60, 1), Px(1, 60, 9)>> >>],
      [kind |-> "notime",  grid |-> << <<Px(0, 60, 0)>> >>],
      [kind |-> "nolon",   grid |-> << <<Px(0, 60, 5)>> >>],
      [kind |-> "corrupt", grid |-> << >>] }

Range(s) == {s[n] : n \in DOMAIN s}

\* Every order of the list s (its elements are distinct)
Orders(s) == {t \in [DOMAIN s -> Range(s)] : Range(t) = Range(s)}

\* Every buoys dict: distinct names in any iteration order, each at a position
BuoyDicts ==
    UNION { { [n \in DOMAIN names |->
                 [name |-> names[n], lon |-> pos[n][1], lat |-> pos[n][2]]]
              : pos \in [DOMAIN names -> Positions] }
            : names \in UNION {Orders(o) : o \in
                  UNION { {q \in [1..len -> Names] :
                              \A a, c \in 1..len : a < c => q[a] < q[c]}
                          : len \in 0..Cardinality(Names) } } }

Folders == UNION {[1..n -> Datasets] : n \in 0..NFiles}

----------------------------------------------------------------------------
(* index_overpasses, overpass_index.py:22-41: the per-file body *)

Cells(grid) == {grid[x][y] : x \in DOMAIN grid, y \in 1..Len(grid[1])}

SetMin(S) == CHOOSE m \in S : \A n \in S : m <= n
SetMax(S) == CHOOSE m \in S : \A n \in S : m >= n

\* A variant of InExtent whose bounds are exclusive
InExtent_exclusive(grid, blon, blat, R_km) ==
    LET lon_min == SetMin({c.lon : c \in Cells(grid)})
        lon_max == SetMax({c.lon : c \in Cells(grid)})
        lat_min == SetMin({c.lat : c \in Cells(grid)})
        lat_max == SetMax({c.lat : c \in Cells(grid)})
    IN  /\ 111 * lon_min - R_km < 111 * blon
        /\ 111 * blon < 111 * lon_max + R_km
        /\ 111 * lat_min - R_km < 111 * blat
        /\ 111 * blat < 111 * lat_max + R_km

\* (lon_min - deg_pad <= blon <= lon_max + deg_pad) and the same for lat,
\* with deg_pad = R_km / 111.0 and float(ds["lon"].min()) and so on
InExtent(grid, blon, blat, R_km) ==
    LET lon_min == SetMin({c.lon : c \in Cells(grid)})
        lon_max == SetMax({c.lon : c \in Cells(grid)})
        lat_min == SetMin({c.lat : c \in Cells(grid)})
        lat_max == SetMax({c.lat : c \in Cells(grid)})
    IN  /\ 111 * lon_min - R_km <= 111 * blon
        /\ 111 * blon <= 111 * lon_max + R_km
        /\ 111 * lat_min - R_km <= 111 * blat
        /\ 111 * blat <= 111 * lat_max + R_km

\* Whether the try block raises: xr.open_dataset on a file that does not
\* open, or ds["lon"] on a dataset that has no lon
IndexRaises(ds) == ds.kind \in {"corrupt", "nolon"}

\* The for loop over buoys.items(): candidates[name].append(f)
RECURSIVE AppendWhereInExtent(_, _, _, _, _, _)
AppendWhereInExtent(cands, bs, n, ds, f, R_km) ==
    IF n > Len(bs) THEN cands
    ELSE LET b == bs[n]
             c == IF InExtent(ds.grid, b.lon, b.lat, R_km)
                  THEN [cands EXCEPT ![b.name] = Append(@, f)]
                  ELSE cands
         IN  AppendWhereInExtent(c, bs, n + 1, ds, f, R_km)

\* A variant of NextAfterSkip in which the exception ends the for loop
NextAfterSkip_break(f, n) == n + 1

\* Where the for loop over the files goes on after the except clause
NextAfterSkip(f, n) == f + 1

----------------------------------------------------------------------------
(* collocate_buoy_to_file, collocation.py:36-81 *)

\* A cell that ds.where() masked: every variable is NaN (NaT for time).
\* lon, lat and time are taken to be data variables of the dataset, which
\* where() masks, and its two dimensions to be named x and y, as line 45
\* expects.
NaNCell == [lon |-> 0, lat |-> 0, time |-> 0, nan |-> TRUE]

\* The condition of ds.where(): lon and lat within blon, blat +- deg_pad
InCrop(c, blon, blat, R_km) ==
    /\ 111 * c.lon >= 111 * blon - R_km
    /\ 111 * c.lon <= 111 * blon + R_km
    /\ 111 * c.lat >= 111 * blat - R_km
    /\ 111 * c.lat <= 111 * blat + R_km

\* The numbers of the set S as an ascending sequence
Ascending(S) ==
    [n \in 1..Cardinality(S) |->
        CHOOSE x \in S : Cardinality({y \in S : y < x}) = n - 1]

\* ds.where(cond, drop=True): along each dimension the labels where cond
\* holds nowhere are dropped; of what is left, the cells where cond does
\* not hold are masked
Crop(grid, blon, blat, R_km) ==
    LET nx == Len(grid)
        ny == IF nx = 0 THEN 0 ELSE Len(grid[1])
        cond(x, y) == InCrop(grid[x][y], blon, blat, R_km)
        xs == Ascending({x \in 1..nx : \E y \in 1..ny : cond(x, y)})
        ys == Ascending({y \in 1..ny : \E x \in 1..nx : cond(x, y)})
    IN  [x \in 1..Len(xs) |->
           [y \in 1..Len(ys) |->
              IF cond(xs[x], ys[y]) THEN grid[xs[x]][ys[y]] ELSE NaNCell]]

\* The distance of a masked cell: NaN
NaNDist == -1

\* xr.apply_ufunc(haversine_km, ...): the distance of every cell of ds_cut
DistGrid(cut, blon, blat) ==
    [x \in DOMAIN cut |->
       [y \in DOMAIN cut[x] |->
          IF cut[x][y].nan THEN NaNDist
          ELSE haversine_km(cut[x][y].lon, cut[x][y].lat, blon, blat)]]

\* A variant of Mask that keeps every cell of the crop
Mask_crop_only(d, R_km) == d # NaNDist

\* mask = d_km <= R_km, for one cell; a comparison with NaN is false
Mask(d, R_km) == d # NaNDist /\ d <= R_km * 1000

\* Whether index a comes before index b in the flattened (row-major) array
Before(a, b) == a[1] < b[1] \/ (a[1] = b[1] /\ a[2] < b[2])

\* d_km.where(mask).argmin(dim=[...]): the first index, in row-major
\* order, of the least distance among the cells of the mask
ArgMin(d, R_km) ==
    LET idx == {<<x, y>> \in (DOMAIN d) \X (1..Len(d[1])) : Mask(d[x][y], R_km)}
        least == {a \in idx : \A b \in idx : d[a[1]][a[2]] <= d[b[1]][b[2]]}
    IN  CHOOSE a \in least : \A b \in least : a = b \/ Before(a, b)

NoRow == [buoy |-> 0, file |-> 0, pixel_lon |-> 0, pixel_lat |-> 0,
          pixel_time |-> 0, distance_km |-> 0]

\* One call.  ret is "row" (a dict is returned), "None" or "raise"; open
\* tells whether the dataset the call opened is still open when it ends.
collocate_buoy_to_file(ds, f, buoy_name, blon, blat, R_km) ==
    IF ds.kind = "corrupt"
    THEN [ret |-> "raise", row |-> NoRow, open |-> FALSE]      \* line 36
    ELSE IF ds.kind = "nolon"
    THEN [ret |-> "raise", row |-> NoRow, open |-> TRUE]       \* line 40
    ELSE
      LET ds_cut == Crop(ds.grid, blon, blat, R_km)
          d_km   == DistGrid(ds_cut, blon, blat)
      IN  IF Len(ds_cut) = 0    \* both dimensions are empty, or neither
          THEN [ret |-> "None", row |-> NoRow, open |-> FALSE] \* lines 45-47
          ELSE IF \A x \in DOMAIN d_km : \A y \in DOMAIN d_km[x] :
                     ~Mask(d_km[x][y], R_km)
          THEN [ret |-> "None", row |-> NoRow, open |-> FALSE] \* lines 58-60
          ELSE IF ds.kind = "notime"
          THEN [ret |-> "raise", row |-> NoRow, open |-> TRUE] \* line 70
          ELSE LET idx == ArgMin(d_km, R_km)
                   c   == ds_cut[idx[1]][idx[2]]
               IN  [ret |-> "row",
                    row |-> [buoy |-> buoy_name, file |-> f,
                             pixel_lon |-> c.lon, pixel_lat |-> c.lat,
                             pixel_time |-> c.time,
                             distance_km |-> d_km[idx[1]][idx[2]]],
                    open |-> FALSE]                            \* lines 65-81

----------------------------------------------------------------------------
(* collocate_all, collocation.py:104-110 *)

\* The calls of the two nested for loops, in order: one per buoy of the
\* dict and file of candidates.get(name, [])
RECURSIVE Pairs(_, _, _)
Pairs(bs, cands, n) ==
    IF n > Len(bs) THEN << >>
    ELSE [k \in 1..Len(cands[bs[n].name]) |->
             [buoy |-> bs[n], file |-> cands[bs[n].name][k]]]
         \o Pairs(bs, cands, n + 1)

\* Row a sorts strictly before row b under the keys ["buoy", "pixel_time"]
KeyLess(a, b) ==
    \/ a.buoy < b.buoy
    \/ a.buoy = b.buoy /\ a.pixel_time < b.pixel_time

\* One row put into a sorted table, after the rows whose keys are equal
RECURSIVE Insert(_, _)
Insert(t, r) ==
    IF t = << >> THEN <<r>>
    ELSE IF KeyLess(r, Head(t)) THEN <<r>> \o t
    ELSE <<Head(t)>> \o Insert(Tail(t), r)

\* A variant of SortValues that leaves the rows in the order of the calls
SortValues_unsorted(rs) == rs

\* DataFrame.sort_values(["buoy", "pixel_time"]): rows of equal keys keep
\* the order they were appended in
RECURSIVE SortValues(_)
SortValues(rs) ==
    IF rs = << >> THEN << >>
    ELSE Insert(SortValues(SubSeq(rs, 1, Len(rs) - 1)), rs[Len(rs)])

----------------------------------------------------------------------------
(* The run: index_overpasses(folder, buoys, R_km), then                    *)
(* collocate_all(candidates, buoys, R_km)                                  *)

VARIABLES
    folder,      \* the datasets of sorted(folder.glob("*.nc")); a file is
                 \* named by its place in that order
    buoys,       \* the buoys dict, in its iteration order
    R_km,        \* the search radius
    pc,          \* "index", "indexed", "collocate", "done" or "raised"
    f,           \* index_overpasses: the file the for loop is at
    candidates,  \* index_overpasses: the dict being built and returned
    skipped,     \* the files reported by print("Skipping ...")
    handles,     \* the datasets that are open: who opened which file
    cand_arg,    \* collocate_all: its candidates argument
    p,           \* collocate_all: the call the loops are at, in Pairs
    rows,        \* collocate_all: the list rows
    last,        \* the latest call of collocate_buoy_to_file and its outcome
    raised,      \* the function an uncaught exception came out of
    table        \* the DataFrame collocate_all returned

vars == <<folder, buoys, R_km, pc, f, candidates, skipped, handles,
          cand_arg, p, rows, last, raised, table>>

NoCall == [file |-> 0, buoy |-> [name |-> 0, lon |-> 0, lat |-> 0],
           ret |-> "none", row |-> NoRow]

Init ==
    /\ folder \in Folders
    /\ buoys \in BuoyDicts
    /\ R_km \in Radii
    /\ pc = "index"
    /\ f = 1
    /\ candidates = [n \in {buoys[b].name : b \in DOMAIN buoys} |-> << >>]
    /\ skipped = << >>
    /\ handles = {}
    /\ cand_arg = candidates
    /\ p = 1
    /\ rows = << >>
    /\ last = NoCall
    /\ raised = "none"
    /\ table = << >>

\* One pass of the for loop over the files whose try block completes
\* (overpass_index.py:27-37)
index_file ==
    /\ pc = "index"
    /\ f <= Len(folder)
    /\ ~IndexRaises(folder[f])
    /\ candidates' = AppendWhereInExtent(candidates, buoys, 1, folder[f], f, R_km)
    /\ f' = f + 1
    /\ UNCHANGED <<folder, buoys, R_km, pc, skipped, handles, cand_arg, p,
                   rows, last, raised, table>>

\* One pass whose try block raises: the except clause prints and the loop
\* goes on; a dataset that had opened is not closed (overpass_index.py:38-39)
index_skip ==
    /\ pc = "index"
    /\ f <= Len(folder)
    /\ IndexRaises(folder[f])
    /\ skipped' = Append(skipped, f)
    /\ handles' = IF folder[f].kind = "corrupt" THEN handles
                  ELSE handles \cup {[by |-> "index_overpasses", file |-> f,
                                      buoy |-> 0]}
    /\ f' = NextAfterSkip(f, Len(folder))
    /\ UNCHANGED <<folder, buoys, R_km, pc, candidates, cand_arg, p, rows,
                   last, raised, table>>

\* return candidates (overpass_index.py:41)
index_return ==
    /\ pc = "index"
    /\ f > Len(folder)
    /\ pc' = "indexed"
    /\ UNCHANGED <<folder, buoys, R_km, f, candidates, skipped, handles,
                   cand_arg, p, rows, last, raised, table>>

\* The call of collocate_all: the caller passes the candidates of the
\* index, each list in any order; rows = [] (collocation.py:104)
collocate_all_call ==
    /\ pc = "indexed"
    /\ \E c \in [DOMAIN candidates -> UNION {Orders(candidates[n]) :
                                              n \in DOMAIN candidates}] :
          /\ \A n \in DOMAIN candidates : c[n] \in Orders(candidates[n])
          /\ cand_arg' = c
    /\ rows' = << >>
    /\ p' = 1
    /\ pc' = "collocate"
    /\ UNCHANGED <<folder, buoys, R_km, f, candidates, skipped, handles,
                   last, raised, table>>

\* One pass of the inner for loop: the call of collocate_buoy_to_file and
\* rows.append(r) if r; an exception of the call leaves collocate_all
\* (collocation.py:105-109)
collocate_pair ==
    /\ pc = "collocate"
    /\ p <= Len(Pairs(buoys, cand_arg, 1))
    /\ LET pr == Pairs(buoys, cand_arg, 1)[p]
           r  == collocate_buoy_to_file(folder[pr.file], pr.file, pr.buoy.name,
                                        pr.buoy.lon, pr.buoy.lat, R_km)
       IN  /\ last' = [file |-> pr.file, buoy |-> pr.buoy, ret |-> r.ret,
                       row |-> r.row]
           /\ handles' = IF r.open
                         THEN handles \cup {[by |-> "collocate_buoy_to_file",
                                             file |-> pr.file,
                                             buoy |-> pr.buoy.name]}
                         ELSE handles
           /\ rows' = IF r.ret = "row" THEN Append(rows, r.row) ELSE rows
           /\ IF r.ret = "raise"
              THEN pc' = "raised" /\ raised' = "collocate_buoy_to_file" /\ p' = p
              ELSE pc' = pc /\ raised' = raised /\ p' = p + 1
    /\ UNCHANGED <<folder, buoys, R_km, f, candidates, skipped, cand_arg, table>>

\* return pd.DataFrame(rows).sort_values(["buoy", "pixel_time"]): the frame of
\* an empty list has no columns, and sort_values raises KeyError: 'buoy'
\* (collocation.py:110)
collocate_all_return ==
    /\ pc = "collocate"
    /\ p > Len(Pairs(buoys, cand_arg, 1))
    /\ IF rows = << >>
       THEN pc' = "raised" /\ raised' = "sort_values" /\ table' = table
       ELSE pc' = "done" /\ raised' = raised /\ table' = SortValues(rows)
    /\ UNCHANGED <<folder, buoys, R_km, f, candidates, skipped, handles,
                   cand_arg, p, rows, last>>

Next ==
    \/ index_file
    \/ index_skip
    \/ index_return
    \/ collocate_all_call
    \/ collocate_pair
    \/ collocate_all_return

Spec == Init /\ [][Next]_vars

----------------------------------------------------------------------------
(* Properties *)

\* The files index_overpasses can read, and those it cannot
Readable == {n \in DOMAIN folder : folder[n].kind \in {"ok", "notime"}}
Unreadable == DOMAIN folder \ Readable

\* The great-circle distance, in metres, from a cell to a buoy
GreatCircle(c, b) == haversine_km(c.lon, c.lat, b.lon, b.lat)

\* The rows of the table as a set
RowSet(t) == {t[n] : n \in DOMAIN t}

C2_NearestWithinRadius ==
    last.ret \in {"row", "None"} =>
        LET grid == folder[last.file].grid
            within == {a \in (DOMAIN grid) \X (1..Len(grid[1])) :
                          GreatCircle(grid[a[1]][a[2]], last.buoy) <= R_km * 1000}
            least == {a \in within : \A b \in within :
                          GreatCircle(grid[a[1]][a[2]], last.buoy)
                              <= GreatCircle(grid[b[1]][b[2]], last.buoy)}
        IN  IF within = {} THEN last.ret = "None"
            ELSE /\ last.ret = "row"
                 /\ \E a \in least :
                       /\ \A b \in least : a = b \/ Before(a, b)
                       /\ last.row.pixel_lon = grid[a[1]][a[2]].lon
                       /\ last.row.pixel_lat = grid[a[1]][a[2]].lat
                       /\ last.row.pixel_time = grid[a[1]][a[2]].time
                       /\ last.row.distance_km
                              = GreatCircle(grid[a[1]][a[2]], last.buoy)

\* C3: once index_overpasses has returned, every readable file that holds a
\* cell within R_km great-circle distance of a point is in that point's
\* candidate list.
C3_NeverUnderIncludes ==
    pc # "index" =>
        \A n \in Readable : \A b \in DOMAIN buoys :
            (\E c \in Cells(folder[n].grid) :
                 GreatCircle(c, buoys[b]) <= R_km * 1000)
            => n \in Range(candidates[buoys[b].name])

\* C4: no call of collocate_buoy_to_file ends with the dataset it opened
\* still open, whether it returned a row, returned None or raised.
C4_HandleReleased ==
    \A h \in handles : h.by # "collocate_buoy_to_file"

\* C5: a call of collocate_buoy_to_file that raises does not end
\* collocate_all: the pair is skipped and the loops go on.
C5_FailureIsolated ==
    last.ret = "raise" => pc # "raised"

\* C6: when every call has returned and none returned a row, collocate_all
\* returns an empty table without error.
C6_EmptyTableReturned ==
    (pc \in {"done", "raised"} /\ p > Len(Pairs(buoys, cand_arg, 1))
        /\ rows = << >>)
    => (pc = "done" /\ table = << >>)

\* The rows the calls of collocate_all return, for a candidates dict c
MatchesOf(c) ==
    LET prs == Pairs(buoys, c, 1)
        call(n) == collocate_buoy_to_file(folder[prs[n].file], prs[n].file,
                       prs[n].buoy.name, prs[n].buoy.lon, prs[n].buoy.lat, R_km)
    IN  {call(n).row : n \in {m \in DOMAIN prs : call(m).ret = "row"}}

RECURSIVE RowsOf(_, _)
RowsOf(prs, n) ==
    IF n > Len(prs) THEN << >>
    ELSE LET r == collocate_buoy_to_file(folder[prs[n].file], prs[n].file,
                      prs[n].buoy.name, prs[n].buoy.lon, prs[n].buoy.lat, R_km)
         IN  (IF r.ret = "row" THEN <<r.row>> ELSE << >>) \o RowsOf(prs, n + 1)

C9_CandidatesExact ==
    pc # "index" =>
        \A b \in DOMAIN buoys :
            LET lst == candidates[buoys[b].name]
                InBox(n) ==
                    LET cs == Cells(folder[n].grid)
                    IN  /\ \E c \in cs : 111 * c.lon - R_km <= 111 * buoys[b].lon
                        /\ \E c \in cs : 111 * buoys[b].lon <= 111 * c.lon + R_km
                        /\ \E c \in cs : 111 * c.lat - R_km <= 111 * buoys[b].lat
                        /\ \E c \in cs : 111 * buoys[b].lat <= 111 * c.lat + R_km
            IN  /\ Range(lst) = {n \in Readable : InBox(n)}
                /\ \A m, n \in DOMAIN lst : m < n => lst[m] < lst[n]

\* C9 happens: a list of two files, a readable file left out of a list, and
\* a file listed for a point that lies exactly on its padded extent.
C9_Witness ==
    /\ pc = "indexed"
    /\ \E b \in DOMAIN buoys : Len(candidates[buoys[b].name]) >= 2
    /\ \E b \in DOMAIN buoys :
          \E n \in Readable : n \notin Range(candidates[buoys[b].name])
    /\ \E b \in DOMAIN buoys : \E n \in Range(candidates[buoys[b].name]) :
          \A c \in Cells(folder[n].grid) :
              111 * buoys[b].lon = 111 * c.lon - R_km

\* The candidates of a scan of the files of s alone, in that order
RECURSIVE ScanOf(_, _, _)
ScanOf(s, n, cands) ==
    IF n > Len(s) THEN cands
    ELSE ScanOf(s, n + 1,
                AppendWhereInExtent(cands, buoys, 1, folder[s[n]], s[n], R_km))

\* C10: index_overpasses returns although files cannot be opened or parsed;
\* such a file is reported, is in no candidate list, and the lists are
\* those of a scan of the folder without it.
C10_BadFileSkipped ==
    pc # "index" =>
        /\ \A n \in DOMAIN candidates :
              Range(candidates[n]) \cap Unreadable = {}
        /\ Range(skipped) = Unreadable
        /\ candidates = ScanOf(Ascending(Readable), 1,
                               [n \in DOMAIN candidates |-> << >>])

\* C10 happens: a file that cannot be read is followed by a file that is
\* listed for a point.
C10_Witness ==
    /\ pc = "indexed"
    /\ \E n \in Unreadable : \E b \in DOMAIN candidates :
          \E m \in Range(candidates[b]) : n < m

====
